---------------------------- MODULE Spec2Model ----------------------------
(***************************************************************************)
(* timelog: a personal time-tracking log (src/src/lib.rs, src/src/main.rs). *)
(*                                                                         *)
(* One process invocation = one action: it loads the log file, runs one    *)
(* subcommand (start, stop, note, print, summary) and, for the mutating    *)
(* subcommands, rewrites the whole file.                                    *)
(*                                                                         *)
(* Modelling conventions                                                   *)
(*   - Option<T>     : <<>> is None, <<v>> is Some(v).                      *)
(*   - DateTime      : the instant, in whole seconds since 1970-01-01 UTC.  *)
(*   - String (text) : a sequence of bytes (naturals); valid text is ASCII. *)
(*   - BinaryHeap<T> : a sequence holding the heap's elements.  std's heap  *)
(*     compares with the operators <=, >= and >, i.e. with PartialOrd,      *)
(*     which Entry derives (lexicographic over the fields, a total order),  *)
(*     so pop() and into_sorted_vec() are determined by the multiset.       *)
(*   - the log file  : absent, a JSON array of objects, or a strict prefix  *)
(*     of one (a write that did not complete), which does not parse.        *)
(***************************************************************************)
EXTENDS Integers, Sequences, FiniteSets

VARIABLES
    file,     \* the log file on disk
    prev,     \* the log file as it was when the last invocation began
    inv,      \* the last invocation: [cmd, outcome, fault]
    streak,   \* how the invocations before the last one ended:
              \*   1 with a successful start, 2 with a successful start and
              \*   then a successful stop, 0 otherwise
    arg,      \* the arguments of the last invocation (summary's flags)
    out       \* what the last invocation printed (print, summary)

vars == <<file, prev, inv, streak, arg, out>>

(***************************************************************************)
(* Bounds of the model.                                                    *)
(***************************************************************************)
MaxEntries == 2      \* entries in the log
MaxNotes == 1        \* notes on one entry
MaxTime == 1         \* the clock reads 0..MaxTime in the workflow model

(***************************************************************************)
(* Option, orderings                                                       *)
(***************************************************************************)
None == <<>>
Some(v) == <<v>>

Range(s) == {s[i] : i \in 1..Len(s)}

Reverse(o) == CASE o = "Less" -> "Greater" [] o = "Greater" -> "Less" [] OTHER -> "Equal"

IntCmp(a, b) == IF a < b THEN "Less" ELSE IF a > b THEN "Greater" ELSE "Equal"

\* Option<DateTime<Local>>: None < Some(_), Some by instant.
OptCmp(a, b) ==
    IF a = None
    THEN IF b = None THEN "Equal" ELSE "Less"
    ELSE IF b = None THEN "Greater" ELSE IntCmp(a[1], b[1])

\* String: bytewise lexicographic.
RECURSIVE StrCmp(_, _)
StrCmp(a, b) ==
    IF a = <<>>
    THEN IF b = <<>> THEN "Equal" ELSE "Less"
    ELSE IF b = <<>> THEN "Greater"
    ELSE IF Head(a) # Head(b) THEN IntCmp(Head(a), Head(b))
    ELSE StrCmp(Tail(a), Tail(b))

\* Vec<String>: lexicographic over the elements.
RECURSIVE VecCmp(_, _)
VecCmp(a, b) ==
    IF a = <<>>
    THEN IF b = <<>> THEN "Equal" ELSE "Less"
    ELSE IF b = <<>> THEN "Greater"
    ELSE IF StrCmp(Head(a), Head(b)) # "Equal" THEN StrCmp(Head(a), Head(b))
    ELSE VecCmp(Tail(a), Tail(b))

(***************************************************************************)
(* Entry (lib.rs 15-37)                                                    *)
(***************************************************************************)
\* Entry::default()
DefaultEntry == [start |-> None, stop |-> None, goal |-> <<>>, result |-> <<>>, notes |-> <<>>]

\* #[derive(PartialOrd)]: the fields in declaration order.
partial_cmp(a, b) ==
    IF OptCmp(a.start, b.start) # "Equal" THEN OptCmp(a.start, b.start)
    ELSE IF OptCmp(a.stop, b.stop) # "Equal" THEN OptCmp(a.stop, b.stop)
    ELSE IF StrCmp(a.goal, b.goal) # "Equal" THEN StrCmp(a.goal, b.goal)
    ELSE IF StrCmp(a.result, b.result) # "Equal" THEN StrCmp(a.result, b.result)
    ELSE VecCmp(a.notes, b.notes)

Le(a, b) == partial_cmp(a, b) # "Greater"

\* impl Ord for Entry
cmp(a, b) ==
    IF a.start # None /\ b.start # None THEN IntCmp(a.start[1], b.start[1])
    ELSE IF a.start # None /\ b.start = None THEN "Greater"
    ELSE "Less"


(***************************************************************************)
(* BinaryHeap<Entry> (std), ordered by the derived PartialOrd              *)
(***************************************************************************)
push(h, e) == Append(h, e)

\* MaxIdx with the comparison turned round: a least element.
MaxIdx_Least(h) == CHOOSE i \in 1..Len(h) : \A j \in 1..Len(h) : Le(h[i], h[j])

\* The index pop() removes: a greatest element.
MaxIdx(h) == CHOOSE i \in 1..Len(h) : \A j \in 1..Len(h) : Le(h[j], h[i])

RemoveAt(h, i) == SubSeq(h, 1, i - 1) \o SubSeq(h, i + 1, Len(h))

\* pop(): None on an empty heap, else the greatest element and the rest.
pop(h) ==
    IF h = <<>>
    THEN [entry |-> None, rest |-> h]
    ELSE [entry |-> Some(h[MaxIdx(h)]), rest |-> RemoveAt(h, MaxIdx(h))]

RECURSIVE InsertSorted(_, _)
InsertSorted(e, s) ==
    IF s = <<>> THEN <<e>>
    ELSE IF Le(e, Head(s)) THEN <<e>> \o s
    ELSE <<Head(s)>> \o InsertSorted(e, Tail(s))

\* into_sorted_vec(): ascending.
RECURSIVE into_sorted_vec(_)
into_sorted_vec(h) ==
    IF h = <<>> THEN <<>> ELSE InsertSorted(Head(h), into_sorted_vec(Tail(h)))

(***************************************************************************)
(* Persistence codec: serde attributes of Entry, serde_json, chrono        *)
(***************************************************************************)
\* The local clock's offset from UTC, in seconds.
LocalOffset(t) == 60 * 60

\* A DateTime<Local> is written as its local wall-clock reading and offset.
FormatTime(t) == [local |-> t + LocalOffset(t), offset |-> LocalOffset(t)]

\* ParseTime with the offset dropped: the wall-clock reading taken as UTC.
ParseTime_IgnoreOffset(w) == w.local

\* ... and read back as the instant that reading denotes.
ParseTime(w) == w.local - w.offset

\* JSON string escaping of the bytes that need it: " \ newline tab return.
EscapeByte(c) ==
    CASE c = 34 -> <<92, 34>>
      [] c = 92 -> <<92, 92>>
      [] c = 10 -> <<92, 110>>
      [] c = 9  -> <<92, 116>>
      [] c = 13 -> <<92, 114>>
      [] OTHER  -> <<c>>

RECURSIVE JsonEscape(_)
JsonEscape(s) == IF s = <<>> THEN <<>> ELSE EscapeByte(Head(s)) \o JsonEscape(Tail(s))

UnescapeByte(c) ==
    CASE c = 110 -> 10
      [] c = 116 -> 9
      [] c = 114 -> 13
      [] OTHER   -> c

RECURSIVE JsonUnescape(_)
JsonUnescape(s) ==
    IF s = <<>> THEN <<>>
    ELSE IF Head(s) = 92 /\ Len(s) >= 2
         THEN <<UnescapeByte(s[2])>> \o JsonUnescape(Tail(Tail(s)))
         ELSE <<Head(s)>> \o JsonUnescape(Tail(s))

\* skip_serializing_if: the fields that are written.
WrittenFields(e) ==
    {k \in {"start"} : e.start # None}        \* Option::is_none
    \cup {k \in {"stop"} : e.stop # None}     \* Option::is_none
    \cup {k \in {"goal"} : e.goal # <<>>}     \* String::is_empty
    \cup {k \in {"result"} : e.result # <<>>} \* String::is_empty
    \cup {k \in {"notes"} : e.notes # <<>>}   \* Vec::is_empty

\* One Entry as a JSON object: a function from the written field names.
Serialize(e) ==
    [k \in WrittenFields(e) |->
        CASE k = "start"  -> FormatTime(e.start[1])
          [] k = "stop"   -> FormatTime(e.stop[1])
          [] k = "goal"   -> JsonEscape(e.goal)
          [] k = "result" -> JsonEscape(e.result)
          [] k = "notes"  -> [i \in 1..Len(e.notes) |-> JsonEscape(e.notes[i])]]

\* serde(default): a missing field takes its type's default.
Deserialize(j) ==
    [start  |-> IF "start" \in DOMAIN j THEN Some(ParseTime(j["start"])) ELSE None,
     stop   |-> IF "stop" \in DOMAIN j THEN Some(ParseTime(j["stop"])) ELSE None,
     goal   |-> IF "goal" \in DOMAIN j THEN JsonUnescape(j["goal"]) ELSE <<>>,
     result |-> IF "result" \in DOMAIN j THEN JsonUnescape(j["result"]) ELSE <<>>,
     notes  |-> IF "notes" \in DOMAIN j
                THEN [i \in 1..Len(j["notes"]) |-> JsonUnescape(j["notes"][i])]
                ELSE <<>>]

(***************************************************************************)
(* The log file                                                            *)
(***************************************************************************)
AbsentFile == [kind |-> "absent", recs |-> <<>>]
JsonFile(recs) == [kind |-> "json", recs |-> recs]
\* What is left of a write that stopped after k whole objects.
PartialFile(recs, k) == [kind |-> "partial", recs |-> SubSeq(recs, 1, k)]

\* Environment faults an invocation can meet.
Faults == {"none", "open", "create", "write", "flush"}

\* Load with a missing file reported as an error instead of an empty log.
Load_MissingIsError(f, fault) ==
    IF fault = "open" \/ f.kind = "absent"
    THEN [err |-> "io", fault |-> IF fault = "open" THEN "open" ELSE "none", entries |-> <<>>]
    ELSE IF f.kind = "partial" THEN [err |-> "parse", fault |-> "none", entries |-> <<>>]
    ELSE [err |-> "", fault |-> "none",
          entries |-> [i \in 1..Len(f.recs) |-> Deserialize(f.recs[i])]]

\* get_file_reader + read_entries: the heap, or the error that ends the run.
Load(f, fault) ==
    IF fault = "open" THEN [err |-> "io", fault |-> "open", entries |-> <<>>]
    ELSE IF f.kind = "absent" THEN [err |-> "", fault |-> "none", entries |-> <<>>]
    ELSE IF f.kind = "partial" THEN [err |-> "parse", fault |-> "none", entries |-> <<>>]
    ELSE [err |-> "", fault |-> "none",
          entries |-> [i \in 1..Len(f.recs) |-> Deserialize(f.recs[i])]]

\* write_entries's output: the entries ascending, each serialized.
WriteEntries(h) ==
    LET v == into_sorted_vec(h) IN [i \in 1..Len(v) |-> Serialize(v[i])]

\* get_file_writer + write_entries.  File::create leaves the old file alone
\* when it fails and truncates it when it succeeds; a write error is returned
\* when a write call meets it ("write") and dropped when BufWriter's drop
\* meets it ("flush").  k is the number of whole objects that reached the disk.
Store(old, h, fault, k) ==
    LET recs == WriteEntries(h)
        kept == IF k < Len(recs) THEN k ELSE 0
    IN  CASE fault = "create" -> [outcome |-> "io", fault |-> "create", file |-> old]
          [] fault = "write"  -> [outcome |-> "io", fault |-> "write",
                                  file |-> PartialFile(recs, kept)]
          [] fault = "flush"  -> [outcome |-> "ok", fault |-> "flush",
                                  file |-> PartialFile(recs, kept)]
          [] OTHER            -> [outcome |-> "ok", fault |-> "none", file |-> JsonFile(recs)]

\* The end of a run that never opened the destination: the file is as it was.
Exit(old, outcome, fault) == [outcome |-> outcome, fault |-> fault, file |-> old]

\* The run's result when read_entries failed.
LoadFailed(old, ld) == Exit(old, ld.err, ld.fault)

\* get_input's String::from_utf8
ValidUtf8(bytes) == \A i \in 1..Len(bytes) : bytes[i] < 128


(***************************************************************************)
(* format_dur (lib.rs 136-158); a Duration is a whole number of seconds    *)
(***************************************************************************)
SecsPerDay == 86400
SecsPerHour == 3600
SecsPerMinute == 60

\* Rust's integer division: it truncates toward zero.
TruncDiv(a, b) == IF a >= 0 THEN a \div b ELSE -((-a) \div b)

DigitChars == <<"0", "1", "2", "3", "4", "5", "6", "7", "8", "9">>

\* format!("{}", n) of an integer: its decimal digits, "-" first if negative.
RECURSIVE Digits(_)
Digits(n) ==
    IF n < 0 THEN <<"-">> \o Digits(-n)
    ELSE IF n < 10 THEN <<DigitChars[n + 1]>>
    ELSE Digits(n \div 10) \o <<DigitChars[(n % 10) + 1]>>

\* FormatUnit without the subtraction of what was printed.
FormatUnit_NoSubtract(st, unitSecs, letter) ==
    LET n == TruncDiv(st.dur, unitSecs) IN
    IF n # 0 THEN [text |-> st.text \o Digits(n) \o <<letter>>, dur |-> st.dur] ELSE st

\* One step of format_dur: the unit's count of what is left, appended with
\* its letter and taken off only when it is not zero.
FormatUnit(st, unitSecs, letter) ==
    LET n == TruncDiv(st.dur, unitSecs) IN
    IF n # 0
    THEN [text |-> st.text \o Digits(n) \o <<letter>>, dur |-> st.dur - n * unitSecs]
    ELSE st

format_dur(dur) ==
    LET s0 == [text |-> <<>>, dur |-> dur]
        s1 == FormatUnit(s0, SecsPerDay, "d")
        s2 == FormatUnit(s1, SecsPerHour, "h")
        s3 == FormatUnit(s2, SecsPerMinute, "m")
        s4 == FormatUnit(s3, 1, "s")
    IN  s4.text

(***************************************************************************)
(* The calendar (chrono): the proleptic Gregorian calendar and ISO 8601    *)
(* weeks, over day numbers counted from 1970-01-01                         *)
(***************************************************************************)
\* The local calendar day of an instant.
LocalDay(t) == (t + LocalOffset(t)) \div SecsPerDay

\* The day number of a calendar date.
DaysFromCivil(y, m, d) ==
    LET yy  == IF m <= 2 THEN y - 1 ELSE y
        era == yy \div 400
        yoe == yy - era * 400
        mp  == IF m > 2 THEN m - 3 ELSE m + 9
        doy == (153 * mp + 2) \div 5 + d - 1
        doe == yoe * 365 + yoe \div 4 - yoe \div 100 + doy
    IN  era * 146097 + doe - 719468

\* The calendar date <<year, month, day>> of a day number.
CivilFromDays(n) ==
    LET z   == n + 719468
        era == z \div 146097
        doe == z - era * 146097
        yoe == (doe - doe \div 1460 + doe \div 36524 - doe \div 146096) \div 365
        doy == doe - (365 * yoe + yoe \div 4 - yoe \div 100)
        mp  == (5 * doy + 2) \div 153
        d   == doy - (153 * mp + 2) \div 5 + 1
        m   == IF mp < 10 THEN mp + 3 ELSE mp - 9
        y   == yoe + era * 400
    IN  << IF m <= 2 THEN y + 1 ELSE y, m, d >>

\* Datelike::year
YearOf(n) == CivilFromDays(n)[1]

\* Date::with_ordinal0(0): the first day of the date's year.
with_ordinal0_0(n) == DaysFromCivil(YearOf(n), 1, 1)

\* Date::with_day0(0): the first day of the date's month.
with_day0_0(n) == DaysFromCivil(CivilFromDays(n)[1], CivilFromDays(n)[2], 1)

\* Days since Monday; 1970-01-01 was a Thursday.
WeekdayFromMonday(n) == (n + 3) % 7

\* The Thursday of the day's Monday-to-Sunday week, which names its ISO year.
IsoThursday(n) == n - WeekdayFromMonday(n) + 3

\* IsoWeek::year
IsoYearOf(n) == YearOf(IsoThursday(n))

\* IsoWeek::week
IsoWeekOf(n) == (IsoThursday(n) - with_ordinal0_0(IsoThursday(n))) \div 7 + 1

(***************************************************************************)
(* main, SubCommand::Summary (main.rs 110-180, 260-265)                    *)
(***************************************************************************)
Granularities == {"yearly", "monthly", "weekly", "daily"}

\* The key under which an entry that started at t is counted.
YearKey(t) == with_ordinal0_0(LocalDay(t))
MonthKey(t) == with_day0_0(LocalDay(t))
WeekKey(t) == <<YearOf(LocalDay(t)), IsoWeekOf(LocalDay(t))>>
DayKey(t) == LocalDay(t)

BucketKey(g, t) ==
    CASE g = "yearly"  -> YearKey(t)
      [] g = "monthly" -> MonthKey(t)
      [] g = "weekly"  -> WeekKey(t)
      [] g = "daily"   -> DayKey(t)

\* map.entry(k).or_insert(Duration::zero()) += dur
AddTo(map, k, dur) ==
    IF k \in DOMAIN map
    THEN [map EXCEPT ![k] = @ + dur]
    ELSE [x \in DOMAIN map \cup {k} |-> IF x = k THEN dur ELSE map[x]]

\* The loop over entries.iter(), for one granularity: only entries with both
\* start and stop are counted.
RECURSIVE Accumulate(_, _, _)
Accumulate(map, g, es) ==
    IF es = <<>> THEN map
    ELSE LET e == Head(es) IN
         IF e.start # None /\ e.stop # None
         THEN Accumulate(AddTo(map, BucketKey(g, e.start[1]), e.stop[1] - e.start[1]),
                         g, Tail(es))
         ELSE Accumulate(map, g, Tail(es))

\* Ord of the keys: integers, and pairs lexicographically.
KeyLess(g, a, b) ==
    IF g = "weekly" THEN a[1] < b[1] \/ (a[1] = b[1] /\ a[2] < b[2]) ELSE a < b

\* sort_hash_map, and the line printed per bucket: its key (the label's
\* wording is not modelled) and format_dur of its total.
RECURSIVE SortedLines(_, _, _)
SortedLines(g, map, keys) ==
    IF keys = {} THEN <<>>
    ELSE LET k == CHOOSE x \in keys : \A y \in keys : y = x \/ KeyLess(g, x, y) IN
         <<[key |-> k, total |-> map[k], text |-> format_dur(map[k])]>>
             \o SortedLines(g, map, keys \ {k})

\* The block printed for granularity g: nothing unless g was asked for.
Block(g, flags, es) ==
    IF g \in flags
    THEN LET map == Accumulate(<<>>, g, es) IN SortedLines(g, map, DOMAIN map)
    ELSE <<>>

SummaryCmd(f, flags, fault) ==
    LET ld == Load(f, fault) IN
    IF ld.err # "" THEN [res |-> LoadFailed(f, ld), out |-> <<>>]
    ELSE [res |-> Exit(f, "ok", "none"),
          out |-> [g \in Granularities |-> Block(g, flags, ld.entries)]]

(***************************************************************************)
(* main (main.rs 94-231): the subcommands that rewrite the log             *)
(***************************************************************************)
\* SubCommand::Start: now, get_input, push, get_file_writer, write_entries.
StartCmd(f, t, in, fault, k) ==
    LET ld == Load(f, fault) IN
    IF ld.err # "" THEN LoadFailed(f, ld)
    ELSE IF ~ValidUtf8(in) THEN Exit(f, "utf8", "none")
    ELSE Store(f, push(ld.entries, [DefaultEntry EXCEPT !.start = Some(t), !.goal = in]),
               fault, k)

\* The entry stop completes: stop and result are set.
Stopped(e, t, in) == [e EXCEPT !.stop = Some(t), !.result = in]

\* StopCmd without the is_none test: a completed entry is completed again.
StopCmd_NoCheck(f, t, in, fault, k) ==
    LET ld == Load(f, fault)
        p  == pop(ld.entries)
    IN  IF ld.err # "" THEN LoadFailed(f, ld)
        ELSE IF p.entry = None THEN Exit(f, "NoneError", "none")
        ELSE IF ~ValidUtf8(in) THEN Exit(f, "utf8", "none")
        ELSE Store(f, push(p.rest, Stopped(p.entry[1], t, in)), fault, k)

\* SubCommand::Stop: now, pop, the is_none test, get_input, push, write.
StopCmd(f, t, in, fault, k) ==
    LET ld == Load(f, fault)
        p  == pop(ld.entries)
    IN  IF ld.err # "" THEN LoadFailed(f, ld)
        ELSE IF p.entry = None THEN Exit(f, "NoneError", "none")
        ELSE IF p.entry[1].stop # None THEN Exit(f, "already completed", "none")
        ELSE IF ~ValidUtf8(in) THEN Exit(f, "utf8", "none")
        ELSE Store(f, push(p.rest, Stopped(p.entry[1], t, in)), fault, k)

\* The entry note annotates: one more note at the end.
Noted(e, in) == [e EXCEPT !.notes = Append(e.notes, in)]

\* SubCommand::Note: pop, get_input, push, write.
NoteCmd(f, in, fault, k) ==
    LET ld == Load(f, fault)
        p  == pop(ld.entries)
    IN  IF ld.err # "" THEN LoadFailed(f, ld)
        ELSE IF p.entry = None THEN Exit(f, "NoneError", "none")
        ELSE IF ~ValidUtf8(in) THEN Exit(f, "utf8", "none")
        ELSE Store(f, push(p.rest, Noted(p.entry[1], in)), fault, k)

\* SubCommand::Print: the entries ascending (their rendering is not modelled).
PrintCmd(f, fault) ==
    LET ld == Load(f, fault) IN
    IF ld.err # "" THEN [res |-> LoadFailed(f, ld), out |-> <<>>]
    ELSE [res |-> Exit(f, "ok", "none"), out |-> into_sorted_vec(ld.entries)]

(***************************************************************************)
(* The workflow: any sequence of invocations on one log file               *)
(***************************************************************************)
Times == 0..MaxTime
Texts == {<<>>, <<97>>}
Stdin == Texts \cup {<<255>>}

\* Whether the loaded log still has room within the model's bounds.
RoomForEntry(f) == Len(f.recs) < MaxEntries
RoomForNote(f) ==
    LET ld == Load(f, "none") IN
    ld.entries # <<>> => Len(ld.entries[MaxIdx(ld.entries)].notes) < MaxNotes

\* A run that ended well and whose output reached the disk whole.
Succeeded(i) == i.outcome = "ok" /\ i.fault = "none"

\* The streak after invocation i, which began with streak n.
StreakAfter(n, i) ==
    IF i.cmd = "start" /\ Succeeded(i) THEN 1
    ELSE IF i.cmd = "stop" /\ Succeeded(i) /\ n = 1 THEN 2
    ELSE 0

Finish(c, r, a, o) ==
    /\ file' = r.file
    /\ prev' = file
    /\ inv' = [cmd |-> c, outcome |-> r.outcome, fault |-> r.fault]
    /\ streak' = StreakAfter(streak, inv)
    /\ arg' = a
    /\ out' = o

NoInv == [cmd |-> "none", outcome |-> "ok", fault |-> "none"]

Init ==
    /\ file \in {AbsentFile, JsonFile(<<>>)}
    /\ prev = file
    /\ inv = NoInv
    /\ streak = 0
    /\ arg = <<>>
    /\ out = <<>>

\* A fault and, for an interrupted write, how many objects reached the disk.
FaultCases ==
    {<<f, 0>> : f \in {"none", "open", "create"}}
    \cup {<<f, k>> : f \in {"write", "flush"}, k \in 0..(MaxEntries - 1)}

Start ==
    /\ RoomForEntry(file)
    /\ \E t \in Times, in \in Stdin, fc \in FaultCases :
          Finish("start", StartCmd(file, t, in, fc[1], fc[2]), <<>>, <<>>)

Stop ==
    \E t \in Times, in \in Stdin, fc \in FaultCases :
        Finish("stop", StopCmd(file, t, in, fc[1], fc[2]), <<>>, <<>>)

Note ==
    /\ RoomForNote(file)
    /\ \E in \in Stdin, fc \in FaultCases :
          Finish("note", NoteCmd(file, in, fc[1], fc[2]), <<>>, <<>>)

PrintAll ==
    \E fault \in {"none", "open"} :
        LET r == PrintCmd(file, fault) IN Finish("print", r.res, <<>>, r.out)

\* clap's ArgGroup "time" is required: at least one flag is given.
FlagSets == {{g} : g \in Granularities} \cup {{"weekly", "daily"}, Granularities}

Summary ==
    \E flags \in FlagSets, fault \in {"none", "open"} :
        LET r == SummaryCmd(file, flags, fault) IN Finish("summary", r.res, flags, r.out)

Next == Start \/ Stop \/ Note \/ PrintAll \/ Summary

Spec == Init /\ [][Next]_vars


(***************************************************************************)
(* Summaries of logs whose entries start around a turn of the year         *)
(***************************************************************************)
\* Noon, local time, of a calendar date.
LocalNoon(y, m, d) == DaysFromCivil(y, m, d) * SecsPerDay + 12 * SecsPerHour - LocalOffset(0)

\* 2018-01-01 Mon (2018-W01), 2018-12-30 Sun (2018-W52), 2018-12-31 Mon and
\* 2019-01-01 Tue (both 2019-W01), 2019-01-07 Mon (2019-W02), 2019-06-15.
SumStarts ==
    {LocalNoon(2018, 1, 1), LocalNoon(2018, 12, 30), LocalNoon(2018, 12, 31),
     LocalNoon(2019, 1, 1), LocalNoon(2019, 1, 7), LocalNoon(2019, 6, 15)}

HalfHour == 30 * SecsPerMinute

SumEntries ==
    {[DefaultEntry EXCEPT !.start = Some(t)] : t \in SumStarts}
    \cup {[DefaultEntry EXCEPT !.start = Some(t), !.stop = Some(t + d)] :
             t \in SumStarts, d \in {HalfHour, 3 * HalfHour}}

\* The sequences of at most n elements of S.
SeqsUpTo(S, n) == UNION {[1..k -> S] : k \in 0..n}

InitSum ==
    /\ file \in {JsonFile(WriteEntries(h)) : h \in SeqsUpTo(SumEntries, MaxEntries)}
    /\ prev = file
    /\ inv = NoInv
    /\ streak = 0
    /\ arg = <<>>
    /\ out = <<>>

SpecSum == InitSum /\ [][Summary]_vars

(***************************************************************************)
(* Entry::cmp on its own                                                   *)
(***************************************************************************)
CmpEntries ==
    {[DefaultEntry EXCEPT !.start = a, !.stop = b] :
         a \in {None} \cup {Some(t) : t \in Times}, b \in {None, Some(MaxTime)}}

InitCmp ==
    /\ file = AbsentFile
    /\ prev = file
    /\ inv = NoInv
    /\ streak = 0
    /\ arg \in CmpEntries \X CmpEntries \X CmpEntries
    /\ out = <<>>

\* a.cmp(&b) for the pairs of arg = <<a, b, c>>.
Compare ==
    /\ inv.cmd = "none"
    /\ inv' = [cmd |-> "cmp", outcome |-> "ok", fault |-> "none"]
    /\ out' = [ab |-> cmp(arg[1], arg[2]), ba |-> cmp(arg[2], arg[1]),
               bc |-> cmp(arg[2], arg[3]), ac |-> cmp(arg[1], arg[3]),
               aa |-> cmp(arg[1], arg[1])]
    /\ UNCHANGED <<file, prev, streak, arg>>

SpecCmp == InitCmp /\ [][Compare]_vars

(***************************************************************************)
(* format_dur on its own                                                   *)
(***************************************************************************)
MaxSpan == 100000

InitFmt ==
    /\ file = AbsentFile
    /\ prev = file
    /\ inv = NoInv
    /\ streak = 0
    /\ arg \in 0..MaxSpan
    /\ out = <<>>

FormatDur ==
    /\ inv.cmd = "none"
    /\ inv' = [cmd |-> "format_dur", outcome |-> "ok", fault |-> "none"]
    /\ out' = format_dur(arg)
    /\ UNCHANGED <<file, prev, streak, arg>>

SpecFmt == InitFmt /\ [][FormatDur]_vars

(***************************************************************************)
(* write_entries then read_entries of any collection                       *)
(***************************************************************************)
CodecEntries ==
    [start : {None, Some(MaxTime)}, stop : {None, Some(0)},
     goal : {<<>>, <<34, 10>>}, result : {<<>>, <<92, 110>>},
     notes : {<<>>, << <<>>, <<9, 97>> >>}]

InitCodec ==
    /\ file = AbsentFile
    /\ prev = file
    /\ inv = NoInv
    /\ streak = 0
    /\ arg \in SeqsUpTo(CodecEntries, MaxEntries)
    /\ out = <<>>

\* get_file_writer + write_entries of the collection arg.
Save ==
    /\ inv.cmd = "none"
    /\ \E fc \in FaultCases \ {<<"open", 0>>} :
          LET r == Store(file, arg, fc[1], fc[2]) IN
          /\ file' = r.file
          /\ inv' = [cmd |-> "save", outcome |-> r.outcome, fault |-> r.fault]
    /\ prev' = file
    /\ UNCHANGED <<streak, arg, out>>

\* get_file_reader + read_entries of what Save left.
LoadBack ==
    /\ inv.cmd = "save"
    /\ \E fault \in {"none", "open"} :
          LET ld == Load(file, fault) IN
          /\ inv' = [cmd |-> "load", outcome |-> IF ld.err = "" THEN "ok" ELSE ld.err,
                     fault |-> ld.fault]
          /\ out' = ld.entries
    /\ prev' = file
    /\ UNCHANGED <<file, streak, arg>>

SpecCodec == InitCodec /\ [][Save \/ LoadBack]_vars


(***************************************************************************)
(* Properties                                                              *)
(***************************************************************************)
\* The entries a log file holds.
LoadedEntries(f) == Load(f, "none").entries

\* The multiset of a sequence's elements.
BagOf(q) == [x \in Range(q) |-> Cardinality({i \in 1..Len(q) : q[i] = x})]

ReplaceAt(q, i, e) == [q EXCEPT ![i] = e]

Ran(c) == inv.cmd = c

\* C1: after a successful start and then a successful stop, a further stop
\* (that can read the log) fails with "already completed" and leaves the
\* log file exactly as it was.
C1_DoubleStop ==
    (Ran("stop") /\ streak = 2 /\ inv.fault # "open")
        => (inv.outcome = "already completed" /\ file = prev)

C1_Witness ==
    /\ Ran("stop") /\ streak = 2
    /\ inv.outcome = "already completed"
    /\ file = prev /\ file.kind = "json" /\ Len(file.recs) = 1

\* C2: the persisted collection holds at most one entry whose stop is None.
C2_Original ==
    file.kind = "json"
        => Cardinality({i \in 1..Len(file.recs) : LoadedEntries(file)[i].stop = None}) <= 1

\* C3: every invocation either completes and persists its full result, or
\* fails and leaves the log file as it was.
C3_Original ==
    inv.cmd \in {"start", "stop", "note", "print", "summary"}
        => IF inv.outcome = "ok" THEN file.kind # "partial" ELSE file = prev

\* C4: stop or note on an empty collection (absent file or empty log) fails,
\* not with the double-stop error, and with NoneError unless the log could
\* not be opened; nothing is written, so an absent file stays absent.
C4_PopOnEmpty ==
    ((Ran("stop") \/ Ran("note")) /\ prev.kind \in {"absent", "json"} /\ prev.recs = <<>>)
        => /\ inv.outcome \notin {"ok", "already completed"}
           /\ inv.fault # "open" => inv.outcome = "NoneError"
           /\ file = prev

C4_Witness ==
    /\ Ran("stop") /\ prev = AbsentFile
    /\ inv.outcome = "NoneError" /\ file = AbsentFile

\* C5: Entry::cmp is a total order on start: cmp(a,b) is the reverse of
\* cmp(b,a), cmp(a,a) is Equal, it is transitive, no start sorts below any
\* start, and two starts compare by time.
C5_Original ==
    Ran("cmp") =>
        LET a == arg[1]
            b == arg[2]
        IN  /\ out.ab = Reverse(out.ba)
            /\ out.aa = "Equal"
            /\ (out.ab # "Greater" /\ out.bc # "Greater") => out.ac # "Greater"
            /\ (out.ab = "Less" /\ out.bc = "Less") => out.ac = "Less"
            /\ (a.start = None /\ b.start # None) => out.ab = "Less"
            /\ (a.start # None /\ b.start # None) => out.ab = IntCmp(a.start[1], b.start[1])

Completed == {e \in Range(LoadedEntries(file)) : e.start # None /\ e.stop # None}

IsoKey(t) == <<IsoYearOf(LocalDay(t)), IsoWeekOf(LocalDay(t))>>

Keys(lines) == {l.key : l \in Range(lines)}

\* C7: in a weekly summary the bucket keys are the (ISO year, ISO week) pairs
\* of the completed entries' starts, so entries share a bucket iff their
\* starts lie in the same ISO week.
C7_Original ==
    (Ran("summary") /\ Succeeded(inv) /\ "weekly" \in arg)
        => Keys(out["weekly"]) = {IsoKey(e.start[1]) : e \in Completed}

\* The sum of stop - start over a sequence of entries counted under key k.
RECURSIVE SumFor(_, _, _)
SumFor(g, k, es) ==
    IF es = <<>> THEN 0
    ELSE (IF Head(es).start # None /\ Head(es).stop # None
             /\ BucketKey(g, Head(es).start[1]) = k
          THEN Head(es).stop[1] - Head(es).start[1] ELSE 0) + SumFor(g, k, Tail(es))

\* Per granularity asked for: one bucket per key of a completed entry, each
\* totalling the completed entries counted under it; nothing otherwise.
C8_PerKey ==
    (Ran("summary") /\ Succeeded(inv)) =>
        \A g \in Granularities :
            IF g \in arg
            THEN /\ Keys(out[g]) = {BucketKey(g, e.start[1]) : e \in Completed}
                 /\ Len(out[g]) = Cardinality(Keys(out[g]))
                 /\ \A i \in 1..Len(out[g]) :
                       out[g][i].total = SumFor(g, out[g][i].key, LoadedEntries(file))
            ELSE out[g] = <<>>

\* Two 30-minute entries in one ISO week on different days give one weekly
\* bucket of 1h and two daily buckets of 30m.
C8_Example ==
    (Ran("summary") /\ Succeeded(inv) /\ Len(file.recs) = 2) =>
        LET a == LoadedEntries(file)[1]
            b == LoadedEntries(file)[2]
        IN  (/\ a \in Completed /\ b \in Completed
             /\ a.stop[1] - a.start[1] = HalfHour /\ b.stop[1] - b.start[1] = HalfHour
             /\ IsoKey(a.start[1]) = IsoKey(b.start[1])
             /\ LocalDay(a.start[1]) # LocalDay(b.start[1]))
            => /\ "weekly" \in arg =>
                    /\ Len(out["weekly"]) = 1
                    /\ out["weekly"][1].text = <<"1", "h">>
               /\ "daily" \in arg =>
                    /\ Len(out["daily"]) = 2
                    /\ \A i \in 1..2 : out["daily"][i].text = <<"3", "0", "m">>

\* C8: for each requested granularity the summary has one bucket per key of
\* a completed entry, each totalling the durations of the completed entries
\* of that key, open entries counting nowhere; e.g. two 30-minute entries in
\* one ISO week on different days give one weekly bucket of 1h and two daily
\* buckets of 30m.
C8_Original == C8_PerKey /\ C8_Example

\* The <<count, unit letter>> tokens a formatted duration reads as.
RECURSIVE ParseTokens(_, _)
ParseTokens(text, acc) ==
    IF text = <<>> THEN <<>>
    ELSE IF \E d \in 0..9 : DigitChars[d + 1] = Head(text)
         THEN ParseTokens(Tail(text),
                          acc * 10 + (CHOOSE d \in 0..9 : DigitChars[d + 1] = Head(text)))
         ELSE << <<acc, Head(text)>> >> \o ParseTokens(Tail(text), 0)

NonZero(tokens) == SelectSeq(tokens, LAMBDA tk : tk[1] # 0)

\* C9: for a span of n >= 0 whole seconds format_dur gives, in the order
\* days, hours, minutes, seconds, "<value><letter>" for exactly the units
\* whose value is not zero, with days = n / 86400 and hours < 24,
\* minutes < 60, seconds < 60 the successive remainders; zero gives "".
C9_FormatDur ==
    Ran("format_dur") =>
        LET d == arg \div 86400
            h == (arg % 86400) \div 3600
            m == (arg % 3600) \div 60
            s == arg % 60
        IN  /\ ParseTokens(out, 0) = NonZero(<< <<d, "d">>, <<h, "h">>, <<m, "m">>, <<s, "s">> >>)
            /\ out # <<>> => out[1] \notin {"0", "-"}
            /\ arg = 0 => out = <<>>
            /\ arg = 90 * 60 => out = <<"1", "h", "3", "0", "m">>
            /\ arg = 25 * 3600 => out = <<"1", "d", "1", "h">>
            /\ arg = 3 => out = <<"3", "s">>

C9_Witness ==
    Ran("format_dur") /\ arg = 90061 /\ out = <<"1", "d", "1", "h", "1", "m", "1", "s">>

\* C10: a collection saved and loaded back is the same multiset of entries,
\* equal in all five fields, absent and empty fields included.
C10_RoundTrip ==
    (Ran("load") /\ Succeeded(inv) /\ file.kind = "json") => BagOf(out) = BagOf(arg)

C10_Witness ==
    /\ Ran("load") /\ Succeeded(inv) /\ file.kind = "json"
    /\ Len(arg) = 2
    /\ arg[2] = [DefaultEntry EXCEPT !.start = Some(MaxTime), !.goal = <<34, 10>>]
    /\ arg[1].notes # <<>>
    /\ BagOf(out) = BagOf(arg)

=============================================================================
